---- MODULE Spec2Model ----
(***************************************************************************)
(* Water ATM session controller.                                           *)
(*                                                                         *)
(* Two programs share the same message handler and differ in the card      *)
(* handling: water_dispense_with_rfid.py (program = "rfid") polls a card   *)
(* reader, mqtt_dummy_water_dispence.py (program = "dummy") simulates the  *)
(* card.  Each runs two threads: the main thread (main) and the network    *)
(* thread started by client.loop_start(), which runs the callbacks         *)
(* on_message and on_disconnect one at a time.                             *)
(*                                                                         *)
(* Amounts are integers in millilitres (0.001 L); a value rounded to two   *)
(* decimals of a litre is a multiple of 10.                                *)
(***************************************************************************)
EXTENDS Integers, Sequences, FiniteSets, TLC

\* ---------------------------------------------------------------- bounds
MaxTicks == 2        \* longest metering window, in ticks
MaxInbox == 1        \* messages received and not yet handed to on_message
MaxAttempts == 2     \* failed reconnect attempts counted; later ones are not

\* ------------------------------------------------------------- constants
PulseMin == 1        \* random.randint(1, 5)
PulseMax == 5
MlPerPulse == 2      \* total_pulses * 2

Programs == {"rfid", "dummy"}
Cards == {"A", "B"}
NoCard == "None"                       \* current_card_uid = None
ReadFail == "exception"                \* reader.read() raised
ReadResults == Cards \cup {ReadFail}
NoRead == "none"                       \* no read made yet
PulseSamples == {PulseMin, PulseMax}   \* the extremes of the per-tick sample

\* ----------------------------------------------------------- JSON values
Absent == [t |-> "absent", v |-> 0]    \* key not in the record
Str == [t |-> "str", v |-> 1]          \* a non-empty string
Num(n) == [t |-> "num", v |-> n]
Bool(b) == [t |-> "bool", v |-> IF b THEN 1 ELSE 0]

\* data.get(key, default)
DataGet(field, default) == IF field = Absent THEN default ELSE field

\* Python truth value of a JSON value
Truthy(j) == j.t # "absent" /\ j.v # 0

\* the operand types for which  balance -= dispensed_liters  does not raise
IsNumeric(j) == j.t \in {"num", "bool"}

\* ------------------------------------------------------ inbound messages
BalanceFields == {Absent, Str, Num(-10), Num(30)}
ExistsFields == {Absent, Bool(TRUE), Bool(FALSE)}

\* every balance with exists=true; a denial without balance, with a balance and
\* with a negative one; a record without 'exists'
AuthRecords ==
    { m \in [retain : {FALSE}, topic : {"auth"}, kind : {"record"},
             exists : ExistsFields, balance : BalanceFields, updated : {Absent}] :
        \/ m.exists = Bool(TRUE)
        \/ m.exists = Bool(FALSE) /\ m.balance # Str
        \/ m.exists = Absent /\ m.balance = Num(30) }

ConfirmRecords ==
    [retain : {FALSE}, topic : {"confirm"}, kind : {"record"},
     exists : {Absent}, balance : {Absent}, updated : {Bool(TRUE), Bool(FALSE)}]

\* a payload json.loads rejects, and one that parses to something without .get
BadPayloads ==
    [retain : {FALSE}, topic : {"auth"}, kind : {"garbage", "nonrecord"},
     exists : {Absent}, balance : {Absent}, updated : {Absent}]

\* replayed messages: an authorization, a confirmation, a payload that does not parse
RetainedMessages ==
    { [m EXCEPT !.retain = TRUE] : m \in
        { [retain |-> FALSE, topic |-> "auth", kind |-> "record",
           exists |-> Bool(TRUE), balance |-> Num(30), updated |-> Absent],
          [retain |-> FALSE, topic |-> "confirm", kind |-> "record",
           exists |-> Absent, balance |-> Absent, updated |-> Bool(TRUE)],
          [retain |-> FALSE, topic |-> "auth", kind |-> "garbage",
           exists |-> Absent, balance |-> Absent, updated |-> Absent] } }

Messages == AuthRecords \cup ConfirmRecords \cup BadPayloads \cup RetainedMessages

\* ----------------------------------------------------- outbound messages
NoPub == [topic |-> "none"]
UidMsg(uid) == [topic |-> "uid", uid |-> uid]
NoResult == [dispensed |-> -1, updated_balance |-> -1]
ResultMsg_empty(r) == [topic |-> "result", body |-> NoResult]
ResultMsg(r) == [topic |-> "result", body |-> r]

VARIABLES
    program,            \* which of the two scripts runs
    mainpc,             \* main(): "connect", "polling", "publishing", "aborted", "stopping",
                        \* "disconnecting", "stopped"
    connected,          \* client.is_connected()
    authenticated,      \* global authenticated
    balance,            \* global balance (a JSON value)
    current_card_uid,   \* global current_card_uid
    netpc,              \* network thread: "idle", "metering", "settle", "reconnecting"
    initial_uid,        \* start_dispensing: initial_uid
    total_pulses,       \* start_dispensing / dispense_water: total_pulses
    ticks,              \* iterations of the metering loop completed
    tickRead,           \* start_dispensing: outcome of the latest reader.read() of the run
    trig,               \* balance recorded from the message that started the run
    activeRuns,         \* metering runs entered and not yet returned
    inbox,              \* messages received, in order, not yet handled
    lastLog,            \* line logged by the last step, or "none"
    pub,                \* message published by the last step, or NoPub
    result,             \* DispenseResult computed by the last step, or NoResult
    \* history of the run, read by the properties only
    lastMainRead,       \* outcome of the main loop's latest reader.read()
    pendingUid,         \* uid of the request that opened the authorization cycle, or NoCard
    recording,          \* whether pendingUid is kept (it is under CycleSpec)
    failedAttempts      \* failed attempts of the running reconnect loop, up to MaxAttempts

vars == <<program, mainpc, connected, authenticated, balance, current_card_uid,
          netpc, initial_uid, total_pulses, ticks, tickRead, trig, activeRuns,
          inbox, lastLog, pub, result, lastMainRead, pendingUid, recording,
          failedAttempts>>

mainVars == <<program, mainpc, connected, current_card_uid, lastMainRead, recording>>
runVars == <<initial_uid, total_pulses, ticks, tickRead, trig, activeRuns>>
sessionVars == <<authenticated, balance>>

\* --------------------------------------------------------- pure functions
Max(a, b) == IF a >= b THEN a ELSE b

\* round(x, 2) of an amount in millilitres: nearest multiple of 10, ties to even
Round2(ml) ==
    LET q == ml \div 10
        r == ml % 10
    IN  IF r < 5 THEN 10 * q
        ELSE IF r > 5 THEN 10 * (q + 1)
        ELSE IF q % 2 = 0 THEN 10 * q ELSE 10 * (q + 1)

\* dispensed_liters = round(total_pulses * 2 / 1000, 2)
DispensedLiters(pulses) == Round2(pulses * MlPerPulse)

Debit_unclamped(b, d) == b - d

\* balance -= dispensed_liters; balance = max(balance, 0)
Debit(b, d) == Max(b - d, 0)

\* ------------------------------------------------------------------ Init
Start(rec) ==
    /\ recording = rec
    /\ program \in Programs
    /\ mainpc = "connect"
    /\ connected = FALSE
    /\ authenticated = FALSE
    /\ balance = Num(0)
    /\ current_card_uid = NoCard
    /\ netpc = "idle"
    /\ initial_uid = NoCard
    /\ total_pulses = 0
    /\ ticks = 0
    /\ tickRead = NoRead
    /\ trig = Absent
    /\ activeRuns = 0
    /\ inbox = <<>>
    /\ lastLog = "none"
    /\ pub = NoPub
    /\ result = NoResult
    /\ lastMainRead = NoRead
    /\ pendingUid = NoCard
    /\ failedAttempts = 0

\* the state when main() is entered
Init == Start(FALSE)

\* the same, with the authorization cycle recorded
CycleInit == Start(TRUE)

\* ------------------------------------------------------------ main thread
\* main(): client.connect succeeded, client.loop_start()
ConnectOk ==
    /\ mainpc = "connect"
    /\ mainpc' = "polling"
    /\ connected' = TRUE
    /\ pub' = NoPub
    /\ result' = NoResult
    /\ UNCHANGED <<pendingUid, failedAttempts>>
    /\ lastLog' = "none"
    /\ UNCHANGED <<program, current_card_uid, lastMainRead, recording, netpc, inbox>>
    /\ UNCHANGED <<sessionVars, runVars>>

ConnectFailed_loopStarted == "polling"

\* except Exception: logger.error(...); return
ConnectFailed == "aborted"

\* main(): client.connect raised; log and return
ConnectFail ==
    /\ mainpc = "connect"
    /\ mainpc' = ConnectFailed
    /\ pub' = NoPub
    /\ result' = NoResult
    /\ UNCHANGED <<pendingUid, failedAttempts>>
    /\ lastLog' = "none"
    /\ UNCHANGED <<program, connected, current_card_uid, lastMainRead, recording, netpc, inbox>>
    /\ UNCHANGED <<sessionVars, runVars>>

PublishUid_unguarded(uid, sent) ==
    IF sent THEN UidMsg(uid) ELSE NoPub

\* client.publish(TOPIC_PUB_UID, ...) guarded by client.is_connected();
\* sent is the transport's answer (result.rc == MQTT_ERR_SUCCESS)
PublishUid(uid, sent) ==
    IF connected /\ sent THEN UidMsg(uid) ELSE NoPub

\* the line main() logs after the attempt to publish a uid
UidLog(sent) ==
    IF ~connected THEN "uid skipped"
    ELSE IF sent THEN "uid published" ELSE "uid failed"

\* a published request opens an authorization cycle unless one is open; the
\* cycle ends with the denial or with the return of the metering run
Requested(p) ==
    IF recording /\ p.topic = "uid" /\ pendingUid = NoCard THEN p.uid ELSE pendingUid

Changed_always(r) == TRUE

\* if uid != current_card_uid
Changed(r) == r # current_card_uid

ReadFailUid_kept == current_card_uid

\* except Exception: current_card_uid = None
ReadFailUid == NoCard

\* water_dispense_with_rfid.py main(): one iteration of the polling loop
MainPoll ==
    /\ program = "rfid"
    /\ mainpc = "polling"
    /\ \E r \in ReadResults, sent \in BOOLEAN :
         /\ lastMainRead' = r
         /\ IF r = ReadFail
            THEN /\ current_card_uid' = ReadFailUid
                 /\ pub' = NoPub
                 /\ lastLog' = "none"
            ELSE IF Changed(r)
            THEN /\ current_card_uid' = r
                 /\ pub' = PublishUid(r, sent)
                 /\ lastLog' = UidLog(sent)
            ELSE /\ current_card_uid' = current_card_uid
                 /\ pub' = NoPub
                 /\ lastLog' = "none"
    /\ pendingUid' = Requested(pub')
    /\ UNCHANGED failedAttempts
    /\ result' = NoResult
    /\ UNCHANGED <<program, mainpc, connected, recording, netpc, inbox>>
    /\ UNCHANGED <<sessionVars, runVars>>

\* mqtt_dummy_water_dispence.py main():  if not authenticated  at the head of
\* an iteration; the network thread may run between this test and the publish
MainCheck ==
    /\ program = "dummy"
    /\ mainpc = "polling"
    /\ mainpc' = IF authenticated THEN "polling" ELSE "publishing"
    /\ pub' = NoPub
    /\ lastLog' = "none"
    /\ result' = NoResult
    /\ UNCHANGED <<pendingUid, failedAttempts>>
    /\ UNCHANGED <<program, connected, current_card_uid, lastMainRead, recording, netpc, inbox>>
    /\ UNCHANGED <<sessionVars, runVars>>

\* mqtt_dummy_water_dispence.py main(): the body of the test: simulate a uid,
\* try to publish it, sleep
MainPublish ==
    /\ program = "dummy"
    /\ mainpc = "publishing"
    /\ mainpc' = "polling"
    /\ \E uid \in Cards, sent \in BOOLEAN :
         pub' = PublishUid(uid, sent) /\ lastLog' = UidLog(sent)
    /\ pendingUid' = Requested(pub')
    /\ UNCHANGED failedAttempts
    /\ result' = NoResult
    /\ UNCHANGED <<program, connected, current_card_uid, lastMainRead, recording, netpc, inbox>>
    /\ UNCHANGED <<sessionVars, runVars>>

\* the loop of main() is running
Running == mainpc \in {"polling", "publishing"}

\* --------------------------------------------------------- network thread
\* the network thread runs one callback at a time: it takes the next message
\* or notices a lost connection only after the previous callback returned
HandlerFree_reentrant == netpc \in {"idle", "metering"}

HandlerFree == netpc = "idle"

\* a message on a subscribed topic is received while a callback may be running
Arrive ==
    /\ Running
    /\ connected
    /\ Len(inbox) < MaxInbox
    /\ \E m \in Messages : inbox' = Append(inbox, m)
    /\ pub' = NoPub
    /\ result' = NoResult
    /\ UNCHANGED <<pendingUid, failedAttempts>>
    /\ lastLog' = "none"
    /\ UNCHANGED <<mainVars, netpc>>
    /\ UNCHANGED <<sessionVars, runVars>>

Retained_unchecked(m) == FALSE

\* if msg.retain: return
Retained(m) == m.retain

\* json.loads(payload) raises, or data has no .get
Unparsed(m) == m.kind # "record"

UserExists_keyPresent(m) == m.exists # Absent

UserExists_andFunded(m) ==
    /\ Truthy(DataGet(m.exists, Bool(FALSE)))
    /\ m.balance.t = "num" /\ m.balance.v > 0

\* user_exists = data.get("exists", False), as tested by  if user_exists
UserExists(m) == Truthy(DataGet(m.exists, Bool(FALSE)))

\* balance = data.get("balance", 0)
MsgBalance(m) == DataGet(m.balance, Num(0))

\* an authorization that on_message reads answers the request of the cycle
Answers(m) == ~m.retain /\ m.kind = "record" /\ m.topic = "auth"

BoundUid_requested == IF program = "rfid" THEN pendingUid ELSE NoCard

\* initial_uid = current_card_uid; dispense_water binds no card
BoundUid == IF program = "rfid" THEN current_card_uid ELSE NoCard

\* on_message up to the call of start_dispensing / dispense_water
OnMessage ==
    /\ Running
    /\ HandlerFree
    /\ inbox # <<>>
    /\ inbox' = Tail(inbox)
    /\ pub' = NoPub
    /\ result' = NoResult
    /\ LET m == Head(inbox) IN
         pendingUid' = IF Answers(m) /\ ~UserExists(m) THEN NoCard ELSE pendingUid
    /\ LET m == Head(inbox) IN
         IF Retained(m)
         THEN /\ lastLog' = "retained"
              /\ UNCHANGED <<netpc, sessionVars, runVars>>
         ELSE IF Unparsed(m)
         THEN /\ lastLog' = "error"
              /\ UNCHANGED <<netpc, sessionVars, runVars>>
         ELSE IF m.topic = "auth"
         THEN /\ balance' = MsgBalance(m)
              /\ IF UserExists(m)
                 THEN /\ authenticated' = TRUE
                      /\ lastLog' = "authenticated"
                      /\ netpc' = "metering"
                      /\ initial_uid' = BoundUid
                      /\ total_pulses' = 0
                      /\ ticks' = 0
                      /\ tickRead' = NoRead
                      /\ trig' = MsgBalance(m)
                      /\ activeRuns' = activeRuns + 1
                 ELSE /\ lastLog' = "denied"
                      /\ UNCHANGED <<netpc, authenticated, runVars>>
         ELSE /\ lastLog' = "confirm"
              /\ UNCHANGED <<netpc, sessionVars, runVars>>
    /\ UNCHANGED <<mainVars, failedAttempts>>

\* the clock test of the metering loop: the first iteration always starts,
\* a later one starts unless the window has elapsed
WindowOpen == ticks < MaxTicks

\* start_dispensing: one iteration of the metering loop
StartDispensingTick ==
    /\ program = "rfid"
    /\ netpc = "metering"
    /\ WindowOpen
    /\ \E r \in ReadResults :
         /\ tickRead' = r
         /\ IF r = ReadFail \/ r # initial_uid
            THEN /\ netpc' = "settle"
                 /\ UNCHANGED <<total_pulses, ticks>>
            ELSE /\ \E p \in PulseSamples : total_pulses' = total_pulses + p
                 /\ ticks' = ticks + 1
                 /\ UNCHANGED netpc
    /\ pub' = NoPub
    /\ result' = NoResult
    /\ UNCHANGED <<pendingUid, failedAttempts>>
    /\ lastLog' = "none"
    /\ UNCHANGED <<mainVars, sessionVars, initial_uid, trig, activeRuns, inbox>>

\* dispense_water: one iteration of the metering loop
DispenseWaterTick ==
    /\ program = "dummy"
    /\ netpc = "metering"
    /\ WindowOpen
    /\ \E p \in PulseSamples : total_pulses' = total_pulses + p
    /\ ticks' = ticks + 1
    /\ pub' = NoPub
    /\ result' = NoResult
    /\ UNCHANGED <<pendingUid, failedAttempts>>
    /\ lastLog' = "none"
    /\ UNCHANGED <<mainVars, sessionVars, netpc, initial_uid, tickRead, trig,
                   activeRuns, inbox>>

\* the metering loop ends because the window has elapsed
WindowElapsed ==
    /\ netpc = "metering"
    /\ ticks >= 1
    /\ netpc' = "settle"
    /\ pub' = NoPub
    /\ result' = NoResult
    /\ UNCHANGED <<pendingUid, failedAttempts>>
    /\ lastLog' = "none"
    /\ UNCHANGED <<mainVars, sessionVars, runVars, inbox>>

\* the code after the metering loop, and the return into on_message:
\* debit, clamp, publish the result, authenticated = False; a balance that is
\* not a number makes the debit raise, which on_message catches and logs
Settle ==
    /\ netpc = "settle"
    /\ netpc' = "idle"
    /\ activeRuns' = activeRuns - 1
    /\ LET d == DispensedLiters(total_pulses) IN
         IF IsNumeric(balance)
         THEN /\ balance' = Num(Debit(balance.v, d))
              /\ result' = [dispensed |-> d, updated_balance |-> Round2(balance'.v)]
              /\ \E sent \in BOOLEAN :
                   pub' = IF connected /\ sent THEN ResultMsg(result') ELSE NoPub
              /\ authenticated' = FALSE
              /\ lastLog' = "result"
         ELSE /\ result' = NoResult
              /\ pub' = NoPub
              /\ lastLog' = "error"
              /\ UNCHANGED <<balance, authenticated>>
    /\ initial_uid' = NoCard          \* the locals of the run end with it
    /\ total_pulses' = 0
    /\ ticks' = 0
    /\ tickRead' = NoRead
    /\ trig' = Absent
    /\ pendingUid' = NoCard
    /\ UNCHANGED <<mainVars, inbox, failedAttempts>>

\* the reason code on_disconnect is called with
ReasonCodes == {"success", "lost"}

\* whether on_disconnect goes on to its reconnect loop: the dummy script
\* returns on the success code, the rfid script does not look at the code
EntersReconnect(rc) == IF program = "dummy" THEN rc # "success" ELSE TRUE

\* on_disconnect after an unexpected loss of the connection
OnDisconnect ==
    /\ Running
    /\ HandlerFree
    /\ connected
    /\ connected' = FALSE
    /\ netpc' = IF EntersReconnect("lost") THEN "reconnecting" ELSE "idle"
    /\ failedAttempts' = 0
    /\ lastLog' = "none"
    /\ pub' = NoPub
    /\ result' = NoResult
    /\ UNCHANGED pendingUid
    /\ UNCHANGED <<program, mainpc, current_card_uid, lastMainRead, recording, inbox>>
    /\ UNCHANGED <<sessionVars, runVars>>

Min(a, b) == IF a <= b THEN a ELSE b

Retry_givenUp == "idle"

\* except Exception: log, time.sleep(5), next iteration of  while True
Retry == "reconnecting"

\* client.reconnect() raised: log, sleep, try again
ReconnectFail ==
    /\ netpc = "reconnecting"
    /\ netpc' = Retry
    /\ failedAttempts' = Min(failedAttempts + 1, MaxAttempts)
    /\ lastLog' = "none"
    /\ pub' = NoPub
    /\ result' = NoResult
    /\ UNCHANGED pendingUid
    /\ UNCHANGED <<mainVars, inbox>>
    /\ UNCHANGED <<sessionVars, runVars>>

\* client.reconnect() returned: break; the callback returns, to the network
\* loop or, on shutdown, into client.disconnect() at the end of main()
ReconnectOk ==
    /\ netpc = "reconnecting"
    /\ netpc' = "idle"
    /\ connected' = TRUE
    /\ mainpc' = IF mainpc = "disconnecting" THEN "stopped" ELSE mainpc
    /\ failedAttempts' = 0
    /\ lastLog' = "none"
    /\ pub' = NoPub
    /\ result' = NoResult
    /\ UNCHANGED pendingUid
    /\ UNCHANGED <<program, current_card_uid, lastMainRead, recording, inbox>>
    /\ UNCHANGED <<sessionVars, runVars>>

\* --------------------------------------------------------------- shutdown
\* main(): KeyboardInterrupt leaves the loop; client.loop_stop() then waits
\* for the network thread, which ends after the callback it is running: the
\* messages not yet handed to on_message never are
Interrupt ==
    /\ Running
    /\ mainpc' = "stopping"
    /\ inbox' = <<>>
    /\ lastLog' = "none"
    /\ pub' = NoPub
    /\ result' = NoResult
    /\ UNCHANGED <<pendingUid, failedAttempts>>
    /\ UNCHANGED <<program, connected, current_card_uid, lastMainRead, recording, netpc>>
    /\ UNCHANGED <<sessionVars, runVars>>

\* main(): client.disconnect() after loop_stop() returned; closing a live
\* connection calls on_disconnect with the success code
Disconnect ==
    /\ mainpc = "stopping"
    /\ HandlerFree
    /\ IF connected /\ EntersReconnect("success")
       THEN mainpc' = "disconnecting" /\ netpc' = "reconnecting"
       ELSE mainpc' = "stopped" /\ netpc' = netpc
    /\ connected' = FALSE
    /\ failedAttempts' = 0
    /\ lastLog' = "none"
    /\ pub' = NoPub
    /\ result' = NoResult
    /\ UNCHANGED pendingUid
    /\ UNCHANGED <<program, current_card_uid, lastMainRead, recording, inbox>>
    /\ UNCHANGED <<sessionVars, runVars>>

Next ==
    \/ ConnectOk
    \/ ConnectFail
    \/ MainPoll
    \/ MainCheck
    \/ MainPublish
    \/ Arrive
    \/ OnMessage
    \/ StartDispensingTick
    \/ DispenseWaterTick
    \/ WindowElapsed
    \/ Settle
    \/ OnDisconnect
    \/ ReconnectFail
    \/ ReconnectOk
    \/ Interrupt
    \/ Disconnect

Spec == Init /\ [][Next]_vars

CycleSpec == CycleInit /\ [][Next]_vars

\* the pulse totals and the authorized balances a run is settled with; no
\* balance ends in 5 millilitres, so that no amount is half-way between two
\* hundredths of a litre
CalcPulses == {0, 1, 2, 3, 4, 7, 8, 1500}
CalcBalances == {0, 4, 10, 26, 30, 38, 3000, 10000}

\* a metering loop has just ended with some pulse total, on some balance
CalcInit ==
    /\ recording = FALSE
    /\ program \in Programs
    /\ mainpc = "polling"
    /\ connected = TRUE
    /\ authenticated = TRUE
    /\ \E b \in CalcBalances : balance = Num(b)
    /\ current_card_uid = IF program = "rfid" THEN "A" ELSE NoCard
    /\ netpc = "settle"
    /\ initial_uid = current_card_uid
    /\ total_pulses \in CalcPulses
    /\ ticks = 0
    /\ tickRead = IF program = "rfid" THEN ReadFail ELSE NoRead
    /\ trig = balance
    /\ activeRuns = 1
    /\ inbox = <<>>
    /\ lastLog = "none"
    /\ pub = NoPub
    /\ result = NoResult
    /\ lastMainRead = IF program = "rfid" THEN "A" ELSE NoRead
    /\ pendingUid = NoCard
    /\ failedAttempts = 0

\* the code after the metering loop, on every such pulse total and balance
CalcSpec == CalcInit /\ [][Settle]_vars

\* some attempt of every reconnect loop succeeds
LiveSpec == Init /\ [][Next]_vars /\ WF_vars(ReconnectOk)

TypeOK ==
    /\ program \in Programs
    /\ mainpc \in {"connect", "polling", "publishing", "aborted", "stopping",
                  "disconnecting", "stopped"}
    /\ connected \in BOOLEAN
    /\ authenticated \in BOOLEAN
    /\ current_card_uid \in Cards \cup {NoCard}
    /\ netpc \in {"idle", "metering", "settle", "reconnecting"}
    /\ initial_uid \in Cards \cup {NoCard}
    /\ total_pulses \in 0..(PulseMax * (MaxTicks + 1))
    /\ ticks \in 0..(MaxTicks + 1)
    /\ tickRead \in ReadResults \cup {NoRead}
    /\ Len(inbox) <= MaxInbox + 1
    /\ lastMainRead \in ReadResults \cup {NoRead}
    /\ pendingUid \in Cards \cup {NoCard}
    /\ recording \in BOOLEAN
    /\ failedAttempts \in 0..MaxAttempts

\* ================================================================ claims
\* a step in which on_message is handed the oldest received message
OnMessageStep == inbox # <<>> /\ inbox' = Tail(inbox) /\ mainpc' = mainpc

\* the payload of m is a record on the auth topic, delivered fresh
FreshAuth(m) == ~m.retain /\ m.kind = "record" /\ m.topic = "auth"

\* {"exists": false, ...}
IsDenial(m) == FreshAuth(m) /\ m.exists = Bool(FALSE)

\* a payload that does not parse or is no record, or an authorization without
\* 'exists', without 'balance' or with a balance that is not a number
Malformed(m) ==
    /\ ~m.retain
    /\ \/ m.kind # "record"
       \/ /\ m.topic = "auth"
          /\ m.exists = Absent \/ m.balance = Absent \/ ~IsNumeric(m.balance)

\* the latest tick of the active run read another card, or failed to read
Cancelled == tickRead # NoRead /\ tickRead # initial_uid

\* C1: handling a fresh authorization message with exists=false leaves the
\* balance as it was before the message.
C1_DenialKeepsBalance ==
    [][(OnMessageStep /\ IsDenial(Head(inbox))) => balance' = balance]_vars

\* C2: handling a fresh authorization message with exists=false starts no
\* metering run and publishes nothing, and the controller is idle afterwards:
\* no run is active, authenticated is as before, no result is computed.
C2_DenialStartsNothing ==
    [][(OnMessageStep /\ IsDenial(Head(inbox))) =>
          /\ activeRuns' = activeRuns
          /\ netpc' = "idle"
          /\ authenticated' = authenticated
          /\ pub' = NoPub
          /\ result' = NoResult]_vars

C2_Witness ==
    /\ lastLog = "denied"
    /\ netpc = "idle"
    /\ activeRuns = 0

\* C3: the balance is never negative.
C3_BalanceNonNegative == IsNumeric(balance) => balance.v >= 0

\* C4: a tick that reads another card or fails to read ends the run without
\* accumulating pulses, and the run then settles without a fault: its result is
\* computed from the pulses of the earlier ticks and the balance is debited
\* by that amount.
C4_CancelledRunSettles ==
    [][/\ (netpc = "metering" /\ tickRead' # NoRead /\ tickRead' # initial_uid) =>
             (netpc' = "settle" /\ total_pulses' = total_pulses /\ ticks' = ticks)
       /\ (netpc = "settle" /\ Cancelled /\ netpc' = "idle") =>
             /\ lastLog' # "error"
             /\ result' # NoResult
             /\ result'.dispensed = DispensedLiters(total_pulses)
             /\ IsNumeric(balance')
             /\ balance'.v = Max(balance.v - DispensedLiters(total_pulses), 0)
      ]_vars

\* C5: authenticated is false whenever no metering run is active.
C5_AuthenticatedOnlyWhileRunning == activeRuns = 0 => ~authenticated

\* C6: the updated_balance of a run's result is computed from the balance of
\* the message that started the run, whatever arrived during the run.
C6_ResultFromTriggeringBalance ==
    [][(netpc = "settle" /\ result' # NoResult) =>
          result'.updated_balance = Round2(Max(trig.v - result'.dispensed, 0))]_vars

\* a run started with a balance of 0.03 L has dispensed and settled while an
\* authorization message carrying another balance, received during the run,
\* waits to be handled
C6_Witness ==
    /\ result # NoResult
    /\ result.dispensed > 0
    /\ result.updated_balance > 0
    /\ inbox # <<>>
    /\ FreshAuth(Head(inbox))
    /\ Head(inbox).balance = Num(-10)

\* C7: while a metering run is active the main loop does nothing: the tracked
\* card identifier does not change and no uid request is published.
C7_MainLoopBlockedWhileMetering ==
    [][activeRuns > 0 =>
          (current_card_uid' = current_card_uid /\ pub'.topic # "uid")]_vars

\* C8: at most one metering run is active.
C8_AtMostOneRun == activeRuns <= 1

\* a second authorization with exists=true waits while a run is in progress
C8_Witness ==
    /\ activeRuns = 1
    /\ netpc = "metering"
    /\ ticks >= 1
    /\ inbox # <<>>
    /\ FreshAuth(Head(inbox))
    /\ Head(inbox).exists = Bool(TRUE)

\* C9: handling a retained message changes neither authenticated, the balance
\* nor the tracked card, starts no metering run and publishes nothing.
C9_RetainedIgnored ==
    [][(OnMessageStep /\ Head(inbox).retain) =>
          /\ authenticated' = authenticated
          /\ balance' = balance
          /\ current_card_uid' = current_card_uid
          /\ activeRuns' = activeRuns
          /\ netpc' = netpc
          /\ pub' = NoPub
          /\ result' = NoResult]_vars

\* a retained message was dropped in a session that has a card and a balance
C9_Witness ==
    /\ lastLog = "retained"
    /\ balance = Num(30)
    /\ current_card_uid \in Cards

\* C10: handling a malformed message changes neither authenticated, the
\* balance nor the tracked card, starts no metering run and publishes nothing.
C10_MalformedDropped ==
    [][(OnMessageStep /\ Malformed(Head(inbox))) =>
          /\ authenticated' = authenticated
          /\ balance' = balance
          /\ current_card_uid' = current_card_uid
          /\ activeRuns' = activeRuns
          /\ netpc' = netpc
          /\ pub' = NoPub]_vars

\* a step in which the code after the metering loop runs and the run returns
SettleStep == netpc = "settle" /\ netpc' = "idle"

\* C11: the rfid main loop publishes a uid request only for a read that
\* differs from the read before it; so while every read returns the same card
\* at most one request is published for it, connected or not, and none is
\* added when the channel reconnects.
C11_OneRequestPerPresentation ==
    [][(program = "rfid" /\ pub'.topic = "uid") =>
          (pub'.uid # lastMainRead /\ pub'.uid = lastMainRead')]_vars

\* card A was read and is tracked while the channel is down and reconnecting
C11_Witness ==
    /\ program = "rfid"
    /\ lastMainRead = "A"
    /\ current_card_uid = "A"
    /\ netpc = "reconnecting"
    /\ ~connected
    /\ failedAttempts >= 1
    /\ pub = NoPub

\* C12: the reconnect loop is left only by a successful reconnect, which
\* leaves the channel connected; a failed attempt stays in the loop; and if
\* some attempt succeeds, the channel is eventually connected again.
C12_ReconnectUntilSuccess ==
    /\ [][(netpc = "reconnecting" /\ netpc' # "reconnecting") =>
             (connected' /\ netpc' = "idle")]_vars
    /\ (netpc = "reconnecting" ~> connected)

\* the loop is still trying after MaxAttempts failed attempts
C12_Witness ==
    /\ netpc = "reconnecting"
    /\ failedAttempts = MaxAttempts
    /\ ~connected
    /\ mainpc = "polling"

\* C13: closing the connection on shutdown, which calls on_disconnect with
\* the success code, does not enter the reconnect loop.
C13_CleanDisconnectNoReconnect ==
    [][(mainpc = "stopping" /\ connected /\ ~connected') =>
          netpc' # "reconnecting"]_vars

\* C14 (as stated): the result of a run has updated_balance equal to
\* max(b - dispensed, 0) for the authorized balance b.
C14_UpdatedBalanceExact ==
    [][(SettleStep /\ IsNumeric(balance) /\ balance.v >= 0) =>
          result'.updated_balance = Max(balance.v - result'.dispensed, 0)]_vars

\* the distance between two amounts
Dist(a, b) == IF a >= b THEN a - b ELSE b - a

\* C14 (amended): for every pulse total p >= 0 and balance b >= 0 the result
\* has dispensed = p * 2 / 1000 L rounded to two decimals, never negative, the
\* balance becomes max(b - dispensed, 0), and updated_balance is that balance
\* rounded to two decimals; b = 10 and p = 1500 give 3.0 and 7.0.
C14_ResultRounded ==
    [][(SettleStep /\ IsNumeric(balance) /\ balance.v >= 0) =>
          /\ result'.dispensed >= 0
          /\ result'.dispensed % 10 = 0
          /\ Dist(result'.dispensed, total_pulses * 2) < 5
          /\ balance'.v >= 0
          /\ balance'.v = IF balance.v >= result'.dispensed
                          THEN balance.v - result'.dispensed ELSE 0
          /\ result'.updated_balance % 10 = 0
          /\ Dist(result'.updated_balance, balance'.v) < 5
          /\ (balance.v = 10000 /\ total_pulses = 1500) =>
                (result'.dispensed = 3000 /\ result'.updated_balance = 7000)]_vars

\* the run of 1500 pulses on a balance of 10 L has settled
C14_Witness ==
    /\ result = [dispensed |-> 3000, updated_balance |-> 7000]
    /\ balance = Num(7000)
    /\ netpc = "idle"

\* C15: a failed initial connect aborts main(): the step publishes nothing and
\* starts no loop, and no step of either thread follows it.
C15_ConnectFailureAborts ==
    [][/\ (mainpc = "connect" /\ ~connected') =>
             /\ mainpc' = "aborted"
             /\ netpc' = "idle"
             /\ current_card_uid' = NoCard
             /\ lastMainRead' = NoRead
             /\ pub' = NoPub
       /\ mainpc # "aborted"]_vars

C15_Witness ==
    /\ mainpc = "aborted"
    /\ ~connected
    /\ lastMainRead = NoRead
    /\ pub = NoPub
    /\ inbox = <<>>

\* C16: a metering run starts only while a uid request has been published and
\* not yet answered.
C16_RunOnlyFromPendingAuth ==
    [][activeRuns' > activeRuns => pendingUid # NoCard]_vars

\* C17 (as stated): the step in which a metering run returns publishes its
\* result.
C17_ResultAlwaysPublished ==
    [][SettleStep => pub'.topic = "result"]_vars

\* C17 (amended): a result is published only by the step in which a metering
\* run returns, at most once per run, and it is the result that step computed;
\* a run whose debit raised computes and publishes nothing.
C17_ResultPublishedAtMostOnce ==
    [][/\ pub'.topic = "result" =>
             /\ SettleStep
             /\ activeRuns' = activeRuns - 1
             /\ result' # NoResult
             /\ pub'.body = result'
       /\ (SettleStep /\ ~IsNumeric(balance)) =>
             (pub' = NoPub /\ result' = NoResult)
       /\ (SettleStep /\ IsNumeric(balance)) => result' # NoResult]_vars

\* a run that dispensed has returned and its result went out
C17_Witness ==
    /\ pub.topic = "result"
    /\ pub.body = result
    /\ result.dispensed > 0
    /\ netpc = "idle"
    /\ activeRuns = 0

\* C18: in the rfid script a change of card while a request is unanswered
\* becomes the tracked card and leaves the request open; the authorization
\* with exists=true that then arrives starts a run bound to the tracked card,
\* which a tick ends exactly when its read is not that card, and the run
\* debits the balance the authorization carried.
C18_LateReplyBindsToTrackedCard ==
    [][program = "rfid" =>
         /\ (pendingUid # NoCard /\ lastMainRead' \in Cards
                 /\ lastMainRead' # current_card_uid) =>
               (current_card_uid' = lastMainRead' /\ pendingUid' = pendingUid)
         /\ (OnMessageStep /\ netpc = "idle" /\ FreshAuth(Head(inbox))
                 /\ Head(inbox).exists = Bool(TRUE)) =>
               /\ netpc' = "metering"
               /\ activeRuns' = activeRuns + 1
               /\ initial_uid' = current_card_uid
               /\ trig' = DataGet(Head(inbox).balance, Num(0))
               /\ balance' = trig'
         /\ (netpc = "metering" /\ ticks' > ticks) => tickRead' = initial_uid
         /\ (netpc = "metering" /\ netpc' = "settle" /\ ticks = 0) =>
               tickRead' # initial_uid
         /\ (SettleStep /\ IsNumeric(trig) /\ IsNumeric(balance)) =>
               balance'.v = Max(trig.v - result'.dispensed, 0)]_vars

\* the request for A is open, B is tracked, and the run started by the late
\* authorization has metered a tick on B with the balance of the reply
C18_Witness ==
    /\ netpc = "metering"
    /\ pendingUid = "A"
    /\ current_card_uid = "B"
    /\ initial_uid = "B"
    /\ tickRead = "B"
    /\ ticks >= 1
    /\ trig = Num(30)

\* C19: a failed read of the rfid main loop sets the tracked card to None and
\* the loop goes on; the next read that returns a card, whichever, is a change:
\* it is tracked and its uid request is attempted once, and goes out when the
\* channel is connected and the transport accepts it.
C19_FailedReadResetsTracking ==
    [][/\ lastMainRead' = ReadFail => current_card_uid' = NoCard
       /\ (lastMainRead # ReadFail /\ lastMainRead' = ReadFail) =>
             (mainpc' = "polling" /\ pub' = NoPub /\ lastLog' # "error")
       /\ (lastMainRead = ReadFail /\ lastMainRead' \in Cards) =>
             /\ current_card_uid' = lastMainRead'
             /\ lastLog' \in {"uid published", "uid failed", "uid skipped"}
             /\ (lastLog' = "uid published") = (pub' = UidMsg(lastMainRead'))
             /\ (lastLog' = "uid skipped") = ~connected
             /\ pub' \in {NoPub, UidMsg(lastMainRead')}]_vars

\* the main loop has failed to read a card and goes on polling
C19_Witness ==
    /\ lastMainRead = ReadFail
    /\ current_card_uid = NoCard
    /\ mainpc = "polling"
    /\ connected
    /\ netpc = "idle"

\* C20: the step in which a metering run returns yields a result and logs no
\* error, also when the run was ended by its first tick.
C20_RunReturnsResult ==
    [][SettleStep => (result' # NoResult /\ lastLog' # "error")]_vars

\* C21: a card the rfid main loop first reads while the channel is down is
\* tracked although its uid request is skipped; while it stays the tracked
\* card no step publishes a uid request, connected again or not; a request
\* goes out only for a read that differs from the tracked card.
C21_SkippedRequestNotRepeated ==
    [][program = "rfid" =>
         /\ (~connected /\ lastMainRead' \in Cards /\ lastMainRead' # lastMainRead) =>
               /\ lastLog' = "uid skipped"
               /\ pub' = NoPub
               /\ current_card_uid' = lastMainRead'
         /\ lastLog' = "uid skipped" =>
               (~connected /\ pub' = NoPub /\ current_card_uid' \in Cards)
         /\ (current_card_uid \in Cards /\ current_card_uid' = current_card_uid) =>
               pub'.topic # "uid"
         /\ pub'.topic = "uid" =>
               (connected /\ pub'.uid # current_card_uid /\ pub'.uid = current_card_uid')]_vars

\* card A was first read while the channel was down: it is tracked and its
\* request was skipped
C21_Witness ==
    /\ program = "rfid"
    /\ lastLog = "uid skipped"
    /\ current_card_uid = "A"
    /\ lastMainRead = "A"
    /\ ~connected
    /\ netpc = "reconnecting"
    /\ pub = NoPub

\* C22: every fresh authorization with a true 'exists' that on_message
\* handles starts a metering run, whatever balance it carries or lacks; a run
\* in its window can always meter another tick, whatever the balance, and ends
\* only by the window or a cancelling tick; a debit larger than the balance
\* leaves the balance at zero.
C22_BalanceDoesNotGate ==
    /\ [][/\ (OnMessageStep /\ FreshAuth(Head(inbox))
                 /\ Truthy(Head(inbox).exists)) =>
               /\ netpc' = "metering"
               /\ activeRuns' = activeRuns + 1
               /\ total_pulses' = 0
               /\ ticks' = 0
          /\ (netpc = "metering" /\ netpc' = "settle") =>
               (ticks >= 1 \/ (tickRead' # NoRead /\ tickRead' # initial_uid))
          /\ (netpc = "metering" /\ ticks' > ticks) =>
               total_pulses' >= total_pulses + PulseMin
          /\ (SettleStep /\ IsNumeric(balance)
                 /\ result'.dispensed >= balance.v) =>
               (balance' = Num(0) /\ result'.updated_balance = 0)]_vars
    /\ []((netpc = "metering" /\ ticks < MaxTicks) =>
             ENABLED (StartDispensingTick \/ DispenseWaterTick))

\* a run started without any balance has dispensed, and the clamp left zero
C22_Witness ==
    /\ lastLog = "result"
    /\ result.dispensed > 0
    /\ result.updated_balance = 0
    /\ balance = Num(0)
    /\ activeRuns = 0

\* C23: in the dummy script no uid request is published while a metering run
\* is active.
C23_NoRequestWhileMetering ==
    [][(program = "dummy" /\ activeRuns > 0) => pub'.topic # "uid"]_vars

====
